---------------------------- MODULE Spec2Model ----------------------------
(***************************************************************************)
(* A model of the variable-length batch structure (PaddedBatch) and of the *)
(* encoders that consume it (RnnEncoder, SkipStepEncoder,                  *)
(* XTransformerEncoder) of pytorch-lifestream.                             *)
(*                                                                         *)
(* Tensors are modelled as sequences (rows) of sequences (columns); Python *)
(* positions are 0-based, TLA+ sequences 1-based, so column t of the code  *)
(* is element t+1 here.  An optional value (None in the code) is the empty *)
(* sequence <<>>, a present value v is <<v>>.                              *)
(***************************************************************************)
EXTENDS Integers, Sequences, FiniteSets, TLC

VARIABLES
    batch,      \* PaddedBatch: the batch operations are called on
    derived,    \* PaddedBatch: what the last operation returned (NoBatch if nothing)
    lenHeap,    \* the length tensors in memory, by object identity
    pbStatus,   \* how the last PaddedBatch operation ended
    lastOp,     \* the last PaddedBatch operation and its argument
    rnn,        \* the RnnEncoder object (its fields)
    rnnCall,    \* the RnnEncoder.forward call of this run
    sse,        \* the SkipStepEncoder object
    sseCall,    \* the SkipStepEncoder.forward call of this run
    xt,         \* the XTransformerEncoder object
    xtCall      \* the XTransformerEncoder.forward call of this run

pbVars == <<batch, derived, lenHeap, pbStatus, lastOp>>
rnnVars == <<rnn, rnnCall>>
sseVars == <<sse, sseCall>>
xtVars == <<xt, xtCall>>
vars == <<batch, derived, lenHeap, pbStatus, lastOp, rnn, rnnCall, sse, sseCall, xt, xtCall>>

-----------------------------------------------------------------------------
(* Bounds of the model *)

NumRows == 2
MaxT == 3
MaxIxLen == 2
HiddenSize == 2
MaxSkipT == 6
MaxStep == 5
MaxMem == 2

-----------------------------------------------------------------------------
(* Generic helpers *)

None == <<>>
Some(v) == <<v>>
IsNone(o) == Len(o) = 0
Val(o) == o[1]

Rows == 1..NumRows

RECURSIVE SumSeq(_)
SumSeq(s) == IF Len(s) = 0 THEN 0 ELSE s[1] + SumSeq(Tail(s))

Min2(a, b) == IF a < b THEN a ELSE b
Max2(a, b) == IF a > b THEN a ELSE b

SeqsUpTo(S, n) == UNION {[1..k -> S] : k \in 0..n}

-----------------------------------------------------------------------------
(* PaddedBatch: feature names and values *)

\* feature names are strings of the code; spelled as character sequences so
\* that k.startswith('target') is computed
EventTime == <<"e","v","e","n","t","_","t","i","m","e">>
TargetPrefix == <<"t","a","r","g","e","t">>
Mcc == <<"m","c","c">>
TargetDist == TargetPrefix \o <<"_","d","i","s","t">>
Age == <<"a","g","e">>

StartsWith(k, p) == Len(k) >= Len(p) /\ SubSeq(k, 1, Len(p)) = p

\* is_seq_feature(k, x): x is [type, rank, data]
IsSeqFeature(k, x) ==
    IF k = EventTime THEN TRUE
    ELSE IF StartsWith(k, TargetPrefix) THEN FALSE
    ELSE IF x.type = "ndarray" THEN FALSE
    ELSE IF x.type = "Tensor" /\ x.rank = 1 THEN FALSE
    ELSE TRUE

NoBatch == [kind |-> "none"]

\* The (B, T) shape seq_len_mask reads off the payload
SeqFeatureNames(b) == {k \in DOMAIN b.payload : IsSeqFeature(k, b.payload[k])}

ShapeSource(b) ==
    IF b.kind = "dict"
    THEN b.payload[CHOOSE k \in SeqFeatureNames(b) : TRUE].data
    ELSE b.payload

TimeLen(b) == Len(ShapeSource(b)[1])

\* seq_len_mask: (arange(T).expand(B, T) < length.unsqueeze(1)).long()
SeqLenMaskOf(b, length) ==
    LET src == ShapeSource(b)
        B == Len(src)
        T == Len(src[1])
    IN  [i \in 1..B |-> [t \in 1..T |-> IF (t - 1) < length[i] THEN 1 ELSE 0]]

SeqLenMask(b) == SeqLenMaskOf(b, lenHeap[b.lenRef])


-----------------------------------------------------------------------------
(* PaddedBatch: indexing the time axis *)

\* np.diff / torch.diff of a 1-d index
Diff(items) == [k \in 1..(Len(items) - 1) |-> items[k + 1] - items[k]]

AnyNegative(d) == \E k \in 1..Len(d) : d[k] < 0

\* (mutant) the check rejecting every index that is not strictly increasing
CheckIndex_Strict(ix) ==
    IF ix.type = "slice"
    THEN IF ~IsNone(ix.step) /\ Val(ix.step) < 0 THEN "ValueError" ELSE "ok"
    ELSE IF ix.type \in {"Tensor", "list"}
    THEN IF \E k \in 1..(Len(ix.items) - 1) : ix.items[k + 1] - ix.items[k] <= 0
         THEN "ValueError" ELSE "ok"
    ELSE "TypeError"

\* The checks seq_indexing makes on ix before it indexes anything
CheckIndex(ix) ==
    IF ix.type = "slice"
    THEN IF ~IsNone(ix.step) /\ Val(ix.step) < 0 THEN "ValueError" ELSE "ok"
    ELSE IF ix.type = "Tensor"
    THEN IF AnyNegative(Diff(ix.items)) THEN "ValueError" ELSE "ok"
    ELSE IF ix.type = "list"
    THEN IF AnyNegative(Diff(ix.items)) THEN "ValueError" ELSE "ok"
    ELSE "TypeError"

\* A slice bound as the tensor library normalises it for an axis of T columns
\* (step > 0): None takes the default, a negative bound counts from the end,
\* and the result is clamped to [0, T]
SliceBound(o, default, T) ==
    IF IsNone(o) THEN default
    ELSE IF Val(o) < 0 THEN Max2(Val(o) + T, 0)
    ELSE Min2(Val(o), T)

RECURSIVE Arange(_, _, _)
Arange(start, stop, step) ==
    IF start >= stop THEN <<>> ELSE <<start>> \o Arange(start + step, stop, step)

\* v[:, ix] on an axis of T columns: the 0-based columns taken, or an error
ColumnsTaken(ix, T) ==
    IF ix.type = "slice"
    THEN [err |-> "ok",
          pos |-> Arange(SliceBound(ix.start, 0, T), SliceBound(ix.stop, T, T),
                         IF IsNone(ix.step) THEN 1 ELSE Val(ix.step))]
    ELSE IF \E k \in 1..Len(ix.items) : ix.items[k] < -T \/ ix.items[k] >= T
    THEN [err |-> "IndexError", pos |-> <<>>]
    ELSE [err |-> "ok",
          pos |-> [k \in 1..Len(ix.items) |->
                      IF ix.items[k] < 0 THEN ix.items[k] + T ELSE ix.items[k]]]

TakeCols(m, pos) == [i \in 1..Len(m) |-> [k \in 1..Len(pos) |-> m[i][pos[k] + 1]]]

\* payload = {k: v[:, ix] ... if is_seq_feature(k, v)} or payload[:, ix]
IndexedPayload(b, pos) ==
    IF b.kind = "dict"
    THEN [k \in SeqFeatureNames(b) |->
            [b.payload[k] EXCEPT !.data = TakeCols(b.payload[k].data, pos)]]
    ELSE TakeCols(b.payload, pos)

\* (mutant) the returned batch given the lengths of the batch indexed
NewSeqLens_Stale(b, pos) == lenHeap[b.lenRef]

\* new_seq_lens = torch.sum(old_seq_mask[:, ix], 1)
NewSeqLens(b, pos) ==
    LET new_seq_mask == TakeCols(SeqLenMask(b), pos)
    IN  [i \in 1..Len(new_seq_mask) |-> SumSeq(new_seq_mask[i])]

\* keep_seq_features: the payload restricted to the sequential features
KeptPayload(b) == [k \in SeqFeatureNames(b) |-> b.payload[k]]

-----------------------------------------------------------------------------
(* PaddedBatch: memory of length tensors *)

Refs == {1, 2}

\* a length tensor not referenced by the batch operated on
FreshRef == CHOOSE r \in Refs : r # batch.lenRef

\* the heap with only the cells of `keep` kept, `cells` written
HeapWith(keep, cells) ==
    [r \in Refs |-> IF r \in DOMAIN cells THEN cells[r]
                    ELSE IF r \in keep THEN lenHeap[r] ELSE <<>>]

-----------------------------------------------------------------------------
(* PaddedBatch: operations *)

\* a batch is bound and no operation has been called on it yet; what the
\* operations below return is left to the caller (SetLength, Rebind)
Idle == lastOp.op \in {"none", "rebind"}

SeqIndexing(ix) ==
    LET chk == CheckIndex(ix)
        T == TimeLen(batch)
        cols == ColumnsTaken(ix, T)
    IN  /\ Idle
        /\ lastOp' = [op |-> "seq_indexing", ix |-> ix]
        /\ UNCHANGED <<batch, rnnVars, sseVars, xtVars>>
        /\ IF chk # "ok"
           THEN /\ pbStatus' = chk
                /\ derived' = NoBatch
                /\ lenHeap' = HeapWith({batch.lenRef}, <<>>)
           ELSE IF cols.err # "ok"
           THEN /\ pbStatus' = cols.err
                /\ derived' = NoBatch
                /\ lenHeap' = HeapWith({batch.lenRef}, <<>>)
           ELSE /\ pbStatus' = "ok"
                /\ derived' = [kind |-> batch.kind,
                               payload |-> IndexedPayload(batch, cols.pos),
                               lenRef |-> FreshRef]
                /\ lenHeap' = HeapWith({batch.lenRef},
                                       FreshRef :> NewSeqLens(batch, cols.pos))

\* the length tensor keep_seq_features hands to the new batch
KeptLengthRef(b) == b.lenRef

KeepSeqFeatures ==
    /\ Idle
    /\ lastOp' = [op |-> "keep_seq_features"]
    /\ UNCHANGED batch
    /\ IF batch.kind = "dict"
       THEN /\ pbStatus' = "ok"
            /\ derived' = [kind |-> "dict",
                           payload |-> KeptPayload(batch),
                           lenRef |-> KeptLengthRef(batch)]
            /\ lenHeap' = HeapWith({batch.lenRef}, <<>>)
       ELSE /\ pbStatus' = "AttributeError"
            /\ derived' = NoBatch
            /\ lenHeap' = HeapWith({batch.lenRef}, <<>>)
    /\ UNCHANGED <<rnnVars, sseVars, xtVars>>

\* seq_lens hands out the length tensor itself: a caller's in-place write
\* b.seq_lens[i] = v on the batch an operation has just returned
SetLength(i, v) ==
    /\ derived # NoBatch
    /\ lastOp.op \in {"seq_indexing", "keep_seq_features"}
    /\ lenHeap[derived.lenRef][i] # v
    /\ lenHeap' = [lenHeap EXCEPT ![derived.lenRef][i] = v]
    /\ lastOp' = [op |-> "set_length"]
    /\ pbStatus' = "ok"
    /\ UNCHANGED <<batch, derived>>
    /\ UNCHANGED <<rnnVars, sseVars, xtVars>>

\* the caller goes on with the returned batch: x = x.seq_indexing(ix)
Rebind ==
    /\ derived # NoBatch
    /\ lastOp.op \in {"seq_indexing", "keep_seq_features"}
    /\ batch' = derived
    /\ derived' = NoBatch
    /\ lenHeap' = HeapWith({derived.lenRef}, <<>>)
    /\ lastOp' = [op |-> "rebind"]
    /\ pbStatus' = "none"
    /\ UNCHANGED <<rnnVars, sseVars, xtVars>>

-----------------------------------------------------------------------------
(* PaddedBatch: initial batches and inputs *)

InitCell(i, t) == 10 * i + t

InitMatrix(T) == [i \in Rows |-> [t \in 1..T |-> InitCell(i, t - 1)]]

FeatureValue(k, T) ==
    IF k = Age THEN [type |-> "Tensor", rank |-> 1, data |-> [i \in Rows |-> 100 + i]]
    ELSE [type |-> "Tensor", rank |-> 2, data |-> InitMatrix(T)]

FeatureSets == {{Mcc, EventTime, TargetDist, Age}}

InitPayloads(T) ==
    {[kind |-> "tensor", payload |-> InitMatrix(T)]}
    \cup {[kind |-> "dict", payload |-> [k \in fs |-> FeatureValue(k, T)]] : fs \in FeatureSets}

Options(S) == {None} \cup {Some(v) : v \in S}

IndexInputs(T) ==
    {[type |-> "slice", start |-> a, stop |-> b, step |-> c] :
        a \in Options({-1, 0, 1}), b \in Options({1, T}), c \in Options({-1, 2})}
    \cup {[type |-> "list", items |-> s] : s \in SeqsUpTo({-1, 0, T}, MaxIxLen)}
    \cup {[type |-> "Tensor", items |-> s] : s \in SeqsUpTo({0, T - 1}, MaxIxLen)}
    \cup {[type |-> "int"]}

PBInit ==
    /\ \E T \in 1..MaxT : \E p \in InitPayloads(T) : \E length \in [Rows -> 0..T] :
          /\ batch = [kind |-> p.kind, payload |-> p.payload, lenRef |-> 1]
          /\ lenHeap = [r \in Refs |-> IF r = 1 THEN length ELSE <<>>]
    /\ derived = NoBatch
    /\ pbStatus = "none"
    /\ lastOp = [op |-> "none"]

PBIdle ==
    /\ batch = NoBatch
    /\ derived = NoBatch
    /\ lenHeap = [r \in Refs |-> <<>>]
    /\ pbStatus = "none"
    /\ lastOp = [op |-> "none"]

PBNext ==
    \/ /\ Idle
       /\ \E ix \in IndexInputs(TimeLen(batch)) : SeqIndexing(ix)
    \/ KeepSeqFeatures
    \/ /\ derived # NoBatch
       /\ lastOp.op \in {"seq_indexing", "keep_seq_features"}
       /\ \E i \in Rows : SetLength(i, 0)
    \/ Rebind

-----------------------------------------------------------------------------
(* Encoder inputs: a padded batch of T columns, reduced to what the encoders
   read of it (its shape and seq_lens); cell (i, t) of its payload stands for
   itself *)

XInputs(minT, maxT) ==
    UNION {{[T |-> T, seq_lens |-> l] : l \in [Rows -> 0..T]} : T \in minT..maxT}

NoCall == [status |-> "none"]
Unbuilt == [state |-> "unbuilt"]

-----------------------------------------------------------------------------
(* RnnEncoder *)

Abs(v) == IF v < 0 THEN -v ELSE v

ZeroState == [i \in Rows |-> [j \in 1..HiddenSize |-> 0]]

\* __init__
RnnConstruct(type, bidir, trainable_starter, starter_h) ==
    /\ rnn = Unbuilt
    /\ rnn' = IF bidir
              THEN [state |-> "failed", error |-> "AttributeError"]
              ELSE IF type \notin {"lstm", "gru"}
              THEN [state |-> "failed", error |-> "Exception"]
              ELSE [state |-> "built",
                    rnn_type |-> type,
                    trainable_starter |-> trainable_starter,
                    starter_h |-> IF trainable_starter = "static" THEN Some(starter_h) ELSE None,
                    training |-> TRUE]
    /\ UNCHANGED <<rnnCall, pbVars, sseVars, xtVars>>

\* module.train(mode) / module.eval(): the flag forward reads as self.training
RnnTrain(mode) ==
    /\ rnn.state = "built"
    /\ rnnCall = NoCall
    /\ rnn.training # mode
    /\ rnn' = [rnn EXCEPT !.training = mode]
    /\ UNCHANGED <<rnnCall, pbVars, sseVars, xtVars>>

\* h_0.squeeze(0).abs().sum(dim=1) == 0.0, for one row
RowIsReset(row) == SumSeq([j \in 1..Len(row) |-> Abs(row[j])]) = 0

\* (mutant) the per-row selection made in training mode as well
PrepareInitialState_AnyMode(m, h_0) ==
    IF m.trainable_starter = "static"
    THEN LET starter_h == [i \in Rows |-> Val(m.starter_h)]
         IN  IF IsNone(h_0)
             THEN [err |-> "ok", h_0 |-> Some(starter_h), selected |-> FALSE]
             ELSE [err |-> "ok",
                   h_0 |-> Some([i \in Rows |->
                                   IF RowIsReset(Val(h_0)[i]) THEN starter_h[i] ELSE Val(h_0)[i]]),
                   selected |-> TRUE]
    ELSE [err |-> "ok", h_0 |-> h_0, selected |-> FALSE]

\* "prepare initial state": the h_0 the code holds after it, or the error raised
PrepareInitialState(m, h_0) ==
    IF m.trainable_starter = "static"
    THEN LET starter_h == [i \in Rows |-> Val(m.starter_h)]
         IN  IF IsNone(h_0)
             THEN [err |-> "ok", h_0 |-> Some(starter_h), selected |-> FALSE]
             ELSE IF ~IsNone(h_0) /\ ~m.training
             THEN [err |-> "ok",
                   h_0 |-> Some([i \in Rows |->
                                   IF RowIsReset(Val(h_0)[i]) THEN starter_h[i] ELSE Val(h_0)[i]]),
                   selected |-> TRUE]
             ELSE [err |-> "NotImplementedError", h_0 |-> None, selected |-> FALSE]
    ELSE [err |-> "ok", h_0 |-> h_0, selected |-> FALSE]

\* "pass-through rnn": the state the cell starts from.  The lstm is called
\* without an initial state and the gru with h_0; a cell given no initial
\* state starts from zeros.
CellInitialState(m, h_0) ==
    IF m.rnn_type = "lstm" THEN ZeroState
    ELSE IF IsNone(h_0) THEN ZeroState ELSE Val(h_0)

RnnForward(x, h_0) ==
    /\ rnn.state = "built"
    /\ rnnCall = NoCall
    /\ UNCHANGED <<rnn, pbVars, sseVars, xtVars>>
    /\ LET prep == PrepareInitialState(rnn, h_0)
           call == [x |-> x, h_0 |-> h_0, training |-> rnn.training]
       IN  rnnCall' =
             IF ~(x.T > 0)
             THEN call @@ [status |-> "AssertionError", selected |-> FALSE,
                           initial |-> None, out |-> None]
             ELSE IF prep.err # "ok"
             THEN call @@ [status |-> prep.err, selected |-> FALSE,
                           initial |-> None, out |-> None]
             ELSE call @@ [status |-> "ok", selected |-> prep.selected,
                           initial |-> Some(CellInitialState(rnn, prep.h_0)),
                           out |-> Some([T |-> x.T, seq_lens |-> x.seq_lens])]

\* supplied initial states: per row, no state (zeros), a state, a state whose
\* components cancel, a state with one component set
RowStates ==
    {[j \in 1..HiddenSize |-> 0],
     [j \in 1..HiddenSize |-> 1],
     [j \in 1..HiddenSize |-> IF j = 1 THEN 1 ELSE IF j = 2 THEN -1 ELSE 0],
     [j \in 1..HiddenSize |-> IF j = HiddenSize THEN -1 ELSE 0]}

H0Inputs == {None} \cup {Some(h) : h \in [Rows -> RowStates]}

StarterVectors == [1..HiddenSize -> {0, 2}]

\* the cell reads the payload only; one batch per number of columns, its rows
\* of lengths 1, 2, ... cut at T
RnnXInputs == {[T |-> T, seq_lens |-> [i \in Rows |-> Min2(i, T)]] : T \in 0..MaxT}

RnnInit ==
    /\ rnn = Unbuilt
    /\ rnnCall = NoCall

RnnNext ==
    \/ /\ rnn = Unbuilt
       /\ \E type \in {"lstm", "gru", "rnn"} : \E bidir \in BOOLEAN :
          \E ts \in {"static", "none"} : \E st \in StarterVectors :
             RnnConstruct(type, bidir, ts, st)
    \/ \E mode \in BOOLEAN : RnnTrain(mode)
    \/ /\ rnn.state = "built"
       /\ rnnCall = NoCall
       /\ \E x \in RnnXInputs : \E h_0 \in H0Inputs : RnnForward(x, h_0)

-----------------------------------------------------------------------------
(* SkipStepEncoder *)

SseConstruct(step_size) ==
    /\ sse = Unbuilt
    /\ sse' = [state |-> "built", step_size |-> step_size]
    /\ UNCHANGED <<sseCall, pbVars, rnnVars, xtVars>>

\* (mutant) the stride window anchored at the first position s - 1
IdxToTake_Phase0(l, s) == Arange(Min2(l - 1, s - 1), l, s)

\* idx_to_take = np.arange(min(l - 1, s - 1 + l % s), l, s)
IdxToTake(l, s) == Arange(Min2(l - 1, s - 1 + (l % s)), l, s)

\* [max_len - 1] * (max_len // s - len(idx_to_take)); a list times a count
\* below one is the empty list
PadIdx(max_len, s, n) == [k \in 1..Max2(max_len \div s - n, 0) |-> max_len - 1]

\* np.concatenate([[-1], idx_to_take, pad_idx]) + 1
SecondDimIdx(l, s, max_len) ==
    LET idx == IdxToTake(l, s)
        all == <<-1>> \o idx \o PadIdx(max_len, s, Len(idx))
    IN  [k \in 1..Len(all) |-> all[k] + 1]

\* (mutant) max in place of min
OutLen_Max(l, s) == Max2(1, l \div s)

\* out_lens = [min(1, l // step_size) for l in seq_lens]
OutLen(l, s) == Min2(1, l \div s)

\* x.payload[first_dim_idx, second_dim_idx]: the rows of indices must form a
\* rectangle, and every index must be a column of the payload
Gather(T, first, second) ==
    IF \E i, j \in DOMAIN second : Len(second[i]) # Len(second[j])
    THEN [err |-> "ValueError", out |-> <<>>]
    ELSE IF \E i \in DOMAIN second : \E k \in 1..Len(second[i]) :
              second[i][k] >= T \/ second[i][k] < -T
    THEN [err |-> "IndexError", out |-> <<>>]
    ELSE [err |-> "ok",
          out |-> [i \in DOMAIN second |->
                     [k \in 1..Len(second[i]) |-> <<first[i][k], second[i][k]>>]]]

SseForward(x) ==
    /\ sse.state = "built"
    /\ sseCall = NoCall
    /\ UNCHANGED <<sse, pbVars, rnnVars, xtVars>>
    /\ LET max_len == x.T - 1
           s == sse.step_size
           second_dim_idx == [i \in Rows |-> SecondDimIdx(x.seq_lens[i], s, max_len)]
           first_dim_idx == [i \in Rows |-> [k \in 1..Len(second_dim_idx[i]) |-> i - 1]]
           g == Gather(x.T, first_dim_idx, second_dim_idx)
           call == [x |-> x,
                    idx_to_take |-> [i \in Rows |-> IdxToTake(x.seq_lens[i], s)],
                    second_dim_idx |-> second_dim_idx]
       IN  sseCall' =
             IF g.err # "ok"
             THEN call @@ [status |-> g.err, out |-> None]
             ELSE call @@ [status |-> "ok",
                           out |-> Some([payload |-> g.out,
                                         seq_lens |-> [i \in Rows |-> OutLen(x.seq_lens[i], s)]])]

SseInit ==
    /\ sse = Unbuilt
    /\ sseCall = NoCall

SseNext ==
    \/ \E step_size \in 1..MaxStep : SseConstruct(step_size)
    \/ /\ sse.state = "built"
       /\ sseCall = NoCall
       /\ \E x \in XInputs(1, MaxSkipT) : SseForward(x)

-----------------------------------------------------------------------------
(* XTransformerEncoder *)

\* num_memory_tokens = default(num_memory_tokens, 0)
DefaultMem(o) == IF IsNone(o) THEN 0 ELSE Val(o)

XtConstruct(num_memory_tokens, return_last) ==
    /\ xt = Unbuilt
    /\ xt' = [state |-> "built",
              num_memory_tokens |-> DefaultMem(num_memory_tokens),
              return_last |-> return_last]
    /\ UNCHANGED <<xtCall, pbVars, rnnVars, sseVars>>

\* The sequence each row holds after the memory tokens are prepended.  The
\* projection, the attention stack and the norm keep the sequence positions:
\* position p of their output is the transformed representation of token p.
Tokens(i, num_mem, T) ==
    [n \in 1..num_mem |-> [of |-> "mem", row |-> i, at |-> n - 1]]
    \o [t \in 1..T |-> [of |-> "step", row |-> i, at |-> t - 1]]

\* mem, x = x[:, :num_mem], x[:, num_mem:]; x[:, -1, :] or mem[:, 0, :]
Reduce(m, i, T) ==
    LET all == Tokens(i, m.num_memory_tokens, T)
        mem == SubSeq(all, 1, m.num_memory_tokens)
        x == SubSeq(all, m.num_memory_tokens + 1, Len(all))
    IN  IF m.return_last
        THEN IF Len(x) = 0 THEN [err |-> "IndexError", out |-> <<>>]
             ELSE [err |-> "ok", out |-> x[Len(x)]]
        ELSE IF Len(mem) = 0 THEN [err |-> "IndexError", out |-> <<>>]
             ELSE [err |-> "ok", out |-> mem[1]]

XtForward(x) ==
    /\ xt.state = "built"
    /\ xtCall = NoCall
    /\ UNCHANGED <<xt, pbVars, rnnVars, sseVars>>
    /\ LET r == [i \in Rows |-> Reduce(xt, i, x.T)]
       IN  xtCall' =
             IF \E i \in Rows : r[i].err # "ok"
             THEN [x |-> x, status |-> r[1].err, out |-> None]
             ELSE [x |-> x, status |-> "ok", out |-> Some([i \in Rows |-> r[i].out])]

XtInit ==
    /\ xt = Unbuilt
    /\ xtCall = NoCall

XtNext ==
    \/ \E m \in Options(0..MaxMem) : \E return_last \in BOOLEAN : XtConstruct(m, return_last)
    \/ /\ xt.state = "built"
       /\ xtCall = NoCall
       /\ \E x \in XInputs(0, MaxT) : XtForward(x)

-----------------------------------------------------------------------------
(* Specifications: one per component; the other components stay unbuilt *)

InitPB == PBInit /\ RnnInit /\ SseInit /\ XtInit
InitEncoders == PBIdle /\ RnnInit /\ SseInit /\ XtInit

SpecPB == InitPB /\ [][PBNext]_vars
SpecRnn == InitEncoders /\ [][RnnNext]_vars
SpecSkip == InitEncoders /\ [][SseNext]_vars
SpecXT == InitEncoders /\ [][XtNext]_vars

-----------------------------------------------------------------------------
(* Properties of PaddedBatch (SpecPB) *)

MaskLengthConsistent(b) ==
    LET mask == SeqLenMask(b)
        length == lenHeap[b.lenRef]
    IN  \A i \in Rows : Cardinality({t \in 1..Len(mask[i]) : mask[i][t] = 1}) = length[i]

\* C1: in every batch, the bound one and the one an operation returned, the
\* number of true entries of row i of seq_len_mask equals length[i]; this
\* holds of what seq_indexing returns after any sequence of accepted calls.
C1_MaskLengthConsistency ==
    /\ MaskLengthConsistent(batch)
    /\ derived # NoBatch => MaskLengthConsistent(derived)

\* a batch made of columns 0 and 2 of an initial batch, indexed again with a
\* repeated position: the row of length 1 comes back with length 2
C1_Witness ==
    /\ batch.kind = "tensor"
    /\ batch.payload[1] = <<InitCell(1, 0), InitCell(1, 2)>>
    /\ lastOp.op = "seq_indexing"
    /\ pbStatus = "ok"
    /\ lastOp.ix.type = "list"
    /\ lastOp.ix.items = <<0, 0>>
    /\ lenHeap[batch.lenRef][1] = 1
    /\ lenHeap[derived.lenRef][1] = 2

IsPositions(ix) == ix.type \in {"list", "Tensor"}

Reorders(ix) ==
    \/ IsPositions(ix) /\ \E k \in 1..(Len(ix.items) - 1) : ix.items[k + 1] < ix.items[k]
    \/ ix.type = "slice" /\ ~IsNone(ix.step) /\ Val(ix.step) < 0

PositionsOf(ix, T) == IsPositions(ix) /\ \A k \in 1..Len(ix.items) : -T <= ix.items[k] /\ ix.items[k] < T

\* C2: seq_indexing fails with an error and returns no batch for every index
\* list or tensor with a position smaller than its predecessor and for every
\* slice with a negative step; it returns a batch for every non-decreasing
\* list or tensor of positions of the time axis (repeats and gaps included)
\* and every slice without a negative step.
C2_MonotonicityRejection ==
    lastOp.op = "seq_indexing" =>
        LET ix == lastOp.ix
            T == TimeLen(batch)
        IN  /\ Reorders(ix) => pbStatus = "ValueError" /\ derived = NoBatch
            /\ PositionsOf(ix, T) /\ ~Reorders(ix) =>
                  pbStatus = "ok" /\ derived # NoBatch /\ TimeLen(derived) = Len(ix.items)
            /\ ix.type = "slice" /\ ~Reorders(ix) => pbStatus = "ok" /\ derived # NoBatch

C2_Witness ==
    /\ lastOp.op = "seq_indexing"
    /\ lastOp.ix.type = "Tensor"
    /\ lastOp.ix.items = <<2, 0>>
    /\ TimeLen(batch) = 3
    /\ pbStatus = "ValueError"
    /\ derived = NoBatch

IsIdentitySlice(ix, T) ==
    /\ ix.type = "slice"
    /\ ix.start = Some(0)
    /\ ix.stop = Some(T)
    /\ IsNone(ix.step)

\* C3: seq_indexing with the identity range [0:T] returns a batch equal to
\* the batch indexed: the same features, the same values, the same lengths.
C3_IdentitySlice ==
    (lastOp.op = "seq_indexing" /\ IsIdentitySlice(lastOp.ix, TimeLen(batch))) =>
        /\ pbStatus = "ok"
        /\ derived.kind = batch.kind
        /\ derived.payload = batch.payload
        /\ lenHeap[derived.lenRef] = lenHeap[batch.lenRef]

\* C8: a write to the length of the batch keep_seq_features or seq_indexing
\* returned leaves the length of the batch it was derived from unchanged, and
\* neither operation changes that batch's payload or length.
C8_NoLengthAliasing ==
    [][/\ lastOp'.op = "set_length" =>
            lenHeap'[batch.lenRef] = lenHeap[batch.lenRef]
       /\ lastOp'.op \in {"seq_indexing", "keep_seq_features"} =>
            batch' = batch /\ lenHeap'[batch.lenRef] = lenHeap[batch.lenRef]]_vars

-----------------------------------------------------------------------------
(* Properties of RnnEncoder (SpecRnn) *)

AllZero(row) == \A j \in 1..Len(row) : row[j] = 0

\* C4: with trainable_starter 'static', the state the cell (lstm or gru) is
\* run from is, row by row, the starter vector where the supplied state is
\* all-zero and the supplied state elsewhere; with h_0 None it is the starter
\* vector in every row.
C4_StarterFallback ==
    (rnnCall.status = "ok" /\ rnn.trainable_starter = "static") =>
        \A i \in Rows :
            Val(rnnCall.initial)[i] =
                IF IsNone(rnnCall.h_0) THEN Val(rnn.starter_h)
                ELSE IF AllZero(Val(rnnCall.h_0)[i]) THEN Val(rnn.starter_h)
                ELSE Val(rnnCall.h_0)[i]

\* C9: with trainable_starter 'static', forward in training mode with a
\* supplied h_0 ends in an error, returns no batch, runs no cell and makes no
\* per-row selection, whatever h_0 holds.
C9_MixingRejectedInTraining ==
    (/\ rnnCall.status # "none"
     /\ rnn.trainable_starter = "static"
     /\ rnnCall.training
     /\ ~IsNone(rnnCall.h_0)) =>
        /\ rnnCall.status \in {"NotImplementedError", "AssertionError"}
        /\ IsNone(rnnCall.out)
        /\ IsNone(rnnCall.initial)
        /\ ~rnnCall.selected

C9_Witness ==
    /\ rnnCall.status = "NotImplementedError"
    /\ rnn.trainable_starter = "static"
    /\ rnnCall.training
    /\ rnnCall.x.T > 0
    /\ ~IsNone(rnnCall.h_0)
    /\ AllZero(Val(rnnCall.h_0)[1])
    /\ ~AllZero(Val(rnnCall.h_0)[2])

-----------------------------------------------------------------------------
(* Properties of SkipStepEncoder (SpecSkip) *)

\* C6: the index lists built for the rows of a batch (sentinel, kept
\* positions, right padding) all have the same number of entries, so that the
\* gathered output is rectangular, whatever the row lengths 0 <= L <= T.
C6_UniformWidth ==
    sseCall.status # "none" =>
        \A i, j \in Rows :
            Len(sseCall.second_dim_idx[i]) = Len(sseCall.second_dim_idx[j])

C10_StepSkipAnchor ==
    sseCall.status # "none" =>
        \A i \in Rows :
            LET L == sseCall.x.seq_lens[i]
                S == sse.step_size
                kept == sseCall.idx_to_take[i]
            IN  L >= 1 =>
                  /\ Len(kept) = Max2(1, L \div S)
                  /\ kept[Len(kept)] = L - 1
                  /\ kept[1] >= 0
                  /\ \A k \in 1..(Len(kept) - 1) : kept[k + 1] - kept[k] = S

C10_Witness ==
    /\ sseCall.status # "none"
    /\ sse.step_size = 2
    /\ sseCall.x.seq_lens[1] = 5
    /\ sseCall.idx_to_take[1] = <<2, 4>>

-----------------------------------------------------------------------------
(* Properties of XTransformerEncoder (SpecXT) *)

\* C5: with return_last on, the output of row i is the transformed
\* representation of the last real timestep of that row, time index
\* length[i] - 1.
C5_LastRealStep ==
    (xtCall.status = "ok" /\ xt.return_last) =>
        \A i \in Rows :
            xtCall.x.seq_lens[i] >= 1 =>
                Val(xtCall.out)[i] = [of |-> "step", row |-> i, at |-> xtCall.x.seq_lens[i] - 1]

=============================================================================
